---- MODULE Spec2Model ----
(***************************************************************************)
(* Model of app/core/models.py: the file-backed collection stores          *)
(* ActionList, TaskList and ScheduleList, and the single-record store      *)
(* ImageResource; and of the type resolver that the specification of the   *)
(* system describes.                                                       *)
(*                                                                         *)
(* Python values are modelled as follows.                                  *)
(*  - Optional[int]: an integer, or None.                                  *)
(*  - a dict key: [t |-> "str", v |-> x] is the string str(x) (the decimal *)
(*    string of the integer x, or "None"); [t |-> "int", v |-> i] is the   *)
(*    integer i itself.  "0" and 0 are different keys of a Python dict.    *)
(*  - a dict: the sequence of its entries in insertion order; an entry     *)
(*    holds a key and a reference into the heap of the store object, so    *)
(*    that two entries can hold the same object.                           *)
(*  - a heap object: kind "dict" (the result of model.dict(), or a parsed  *)
(*    JSON object) or kind "model" (a pydantic model instance).            *)
(***************************************************************************)
EXTENDS Integers, Sequences, FiniteSets, TLC

\* ---- bounds ----
MaxLen == 3
MaxId == 1
MaxModels == 1
MaxInst == 2
MaxSchemas == 3

Names == {"a", "b", "c"}
Payloads == {1, 2}

None == -1000

VARIABLES cls, coll, file, last, hist, fs, imglast, objs, caller, res

vars == <<cls, coll, file, last, hist, fs, imglast, objs, caller, res>>

\* ---- records supplied by callers ----
RecIds == {None} \cup (0..MaxId)
IdArgs == (-1)..MaxLen

\* Action / Task / Schedule: id, name, and the remaining fields as one payload
Records == [id : RecIds, name : Names, data : Payloads]
\* an Action or Task as its caller builds it: the store assigns the id
NewRecords == {r \in Records : r.id = None}
\* the Task passed to update_task; no code reads a field of it
UpdateRecords == {r \in NewRecords : r.data = 1}
NoRec == [id |-> None, name |-> "", data |-> 0]

\* ---- Python primitives ----
PyStr(x) == [t |-> "str", v |-> x]
IntKey(i) == [t |-> "int", v |-> i]
StrOfKey(key) == IF key.t = "str" THEN key ELSE PyStr(key.v)

\* model.dict(): a fresh plain dict with the fields of the model
ModelDict(rec) == [kind |-> "dict", id |-> rec.id, name |-> rec.name, data |-> rec.data]
ModelObj(rec) == [kind |-> "model", id |-> rec.id, name |-> rec.name, data |-> rec.data]

\* the empty dict {} and the empty list [] held by a store object
EmptyDict == [isList |-> FALSE, ents |-> << >>, heap |-> << >>]
EmptyList == [isList |-> TRUE, ents |-> << >>, heap |-> << >>]

HasKey(ents, key) == \E i \in 1..Len(ents) : ents[i].key = key
KeyPos(ents, key) == CHOOSE i \in 1..Len(ents) : ents[i].key = key

\* d[key] = <new object obj>: replaces the value of an existing key in place,
\* appends a new key at the end
DictSet(c, key, obj) ==
    LET h == Append(c.heap, obj)
        e == [key |-> key, ref |-> Len(h)]
    IN  IF HasKey(c.ents, key)
        THEN [c EXCEPT !.heap = h, !.ents[KeyPos(c.ents, key)] = e]
        ELSE [c EXCEPT !.heap = h, !.ents = Append(c.ents, e)]

\* objects no longer referenced are dropped, the rest renumbered in order of
\* first reference
RECURSIVE LiveRefs(_, _)
LiveRefs(ents, acc) ==
    IF ents = << >> THEN acc
    ELSE LET r == Head(ents).ref
         IN  LiveRefs(Tail(ents),
                      IF \E i \in 1..Len(acc) : acc[i] = r THEN acc ELSE Append(acc, r))

Collect(c) ==
    LET live == LiveRefs(c.ents, << >>)
        NewRef(r) == CHOOSE i \in 1..Len(live) : live[i] = r
    IN  [isList |-> c.isList,
         ents |-> [i \in 1..Len(c.ents) |->
                      [key |-> c.ents[i].key, ref |-> NewRef(c.ents[i].ref)]],
         heap |-> [i \in 1..Len(live) |-> c.heap[live[i]]]]

\* the value stored under the i-th entry
ValAt(c, i) == c.heap[c.ents[i].ref]

\* ---- JSON documents ----
\* A document on disk: absent, a complete JSON text, or a truncated text left
\* by json.dump raising part-way.  A complete text is [] or an object, given
\* as its members in order: key (always a string) and plain value.
Absent == [st |-> "absent", isList |-> FALSE, ents |-> << >>]
Truncated == [st |-> "truncated", isList |-> FALSE, ents |-> << >>]

Plain(o) == [id |-> o.id, name |-> o.name, data |-> o.data]

Serializable(c) == \A i \in 1..Len(c.ents) : ValAt(c, i).kind = "dict"

\* json.dump(c, file, indent=6): int keys are written as their decimal string;
\* a pydantic model makes the encoder raise TypeError after part of the text
\* has been written
JsonDump(c) ==
    IF Serializable(c)
    THEN [st |-> "ok", isList |-> c.isList,
          ents |-> [i \in 1..Len(c.ents) |->
                       [key |-> StrOfKey(c.ents[i].key), val |-> Plain(ValAt(c, i))]]]
    ELSE Truncated

\* json.loads(text): members in order, a repeated key keeps its last value
RECURSIVE JsonLoadsFrom(_, _)
JsonLoadsFrom(members, c) ==
    IF members = << >> THEN c
    ELSE JsonLoadsFrom(Tail(members),
            DictSet(c, Head(members).key,
                    [kind |-> "dict", id |-> Head(members).val.id,
                     name |-> Head(members).val.name, data |-> Head(members).val.data]))

JsonLoads(doc) ==
    IF doc.isList THEN EmptyList ELSE Collect(JsonLoadsFrom(doc.ents, EmptyDict))

\* ---- results of a call ----
\* exc: the exception the call raised, "none" when it returned; ret: the value
\* it returned
RetNone == [tag |-> "None", msg |-> "", rec |-> NoRec]
RetData(msg) == [tag |-> "Data", msg |-> msg, rec |-> NoRec]
RetDeleted(id) == [tag |-> "Data", msg |-> "Deleted action id", rec |-> [NoRec EXCEPT !.id = id]]
RetObj(rec) == [tag |-> "obj", msg |-> "", rec |-> rec]
RetModel(rec) == [tag |-> "model", msg |-> "", rec |-> rec]

\* arg: the model object that the caller passed, as the call leaves it
Outcome(c, f, ret, exc) ==
    [coll |-> Collect(c), file |-> f, ret |-> ret, exc |-> exc, arg |-> NoRec]
Arg(out, rec) == [out EXCEPT !.arg = rec]

\* save_*_list: rewrites the whole backing file from the in-memory collection
Save(c, f, ret) ==
    IF Serializable(c) THEN Outcome(c, JsonDump(c), ret, "none")
    ELSE Outcome(c, JsonDump(c), RetNone, "TypeError")

save_action_list(c, f, ret) == Save(c, f, ret)

\* load_*_list: the collection is reset to {} and then read from the file
Load(c, f) ==
    IF f.st = "absent" THEN Outcome(EmptyDict, f, RetNone, "none")
    ELSE IF f.st = "truncated" THEN Outcome(EmptyDict, f, RetNone, "JSONDecodeError")
    ELSE Outcome(JsonLoads(f), f, RetNone, "none")

load_action_list(c, f) == Load(c, f)

\* __init__ of a store object
ActionList_init(f) ==
    IF f.st # "absent" THEN load_action_list(EmptyDict, f)
    ELSE save_action_list(EmptyDict, f, RetNone)

\* names = [d[key].get('name') for key in d]; a pydantic model has no .get
NamesOf(c) == {ValAt(c, i).name : i \in 1..Len(c.ents)}
AllDicts(c) == \A i \in 1..Len(c.ents) : ValAt(c, i).kind = "dict"

NumModels(c) == Cardinality({i \in 1..Len(c.ents) : ValAt(c, i).kind = "model"})

\* `x not in [None, {}]`: true of every non-empty dict and of the list []
NotNoneOrEmptyDict(c) == c.isList \/ c.ents # << >>

\* ---- ActionList ----
\* add_action that, for a name already held, puts the record passed in the
\* place of the record of that name
ActionList_add_action_upsert(c, f, action) ==
    IF NotNoneOrEmptyDict(c)
    THEN IF action.name \notin NamesOf(c)
         THEN LET id == Len(c.ents)
                  a == [action EXCEPT !.id = id]
              IN  Arg(save_action_list(DictSet(c, PyStr(id), ModelDict(a)), f, RetObj(a)), a)
         ELSE LET key == c.ents[CHOOSE i \in 1..Len(c.ents) : ValAt(c, i).name = action.name].key
                  a == [action EXCEPT !.id = key.v]
              IN  Arg(save_action_list(DictSet(c, key, ModelDict(a)), f, RetObj(a)), a)
    ELSE LET a == [action EXCEPT !.id = 0]
         IN  Arg(save_action_list(DictSet(EmptyDict, PyStr(0), ModelDict(a)), f, RetObj(a)), a)

\* add_action that reads the backing file before it adds
ActionList_add_action_reloading(c, f, action) ==
    LET m == Load(c, f).coll
    IN  IF NotNoneOrEmptyDict(m)
        THEN IF action.name \notin NamesOf(m)
             THEN LET id == Len(m.ents)
                      a == [action EXCEPT !.id = id]
                  IN  Arg(save_action_list(DictSet(m, PyStr(id), ModelDict(a)), f, RetObj(a)), a)
             ELSE Arg(save_action_list(m, f, RetData("Action already exists")), action)
        ELSE LET a == [action EXCEPT !.id = 0]
             IN  Arg(save_action_list(DictSet(EmptyDict, PyStr(0), ModelDict(a)), f, RetObj(a)), a)

ActionList_add_action(c, f, action) ==
    IF NotNoneOrEmptyDict(c)
    THEN IF action.name \notin NamesOf(c)
         THEN LET id == Len(c.ents)
                  a == [action EXCEPT !.id = id]
              IN  Arg(save_action_list(DictSet(c, PyStr(id), ModelDict(a)), f, RetObj(a)), a)
         ELSE Arg(save_action_list(c, f, RetData("Action already exists")), action)
    ELSE LET a == [action EXCEPT !.id = 0]
         IN  Arg(save_action_list(DictSet(EmptyDict, PyStr(0), ModelDict(a)), f, RetObj(a)), a)

\* the loop of delete_* without element["id"] = index
RECURSIVE DeleteLoopKeepId(_, _, _, _, _)
DeleteLoopKeepId(c, id, pos, new, index) ==
    IF pos > Len(c.ents) THEN [exc |-> "none", old |-> c, new |-> new]
    ELSE LET key == c.ents[pos].key
         IN  IF key = PyStr(id) THEN DeleteLoopKeepId(c, id, pos + 1, new, index)
             ELSE IF ~HasKey(c.ents, StrOfKey(key))
                  THEN [exc |-> "KeyError", old |-> c, new |-> new]
                  ELSE LET r == c.ents[KeyPos(c.ents, StrOfKey(key))].ref
                       IN  IF c.heap[r].kind # "dict"
                           THEN [exc |-> "TypeError", old |-> c, new |-> new]
                           ELSE DeleteLoopKeepId(c, id, pos + 1,
                                                 Append(new, [key |-> PyStr(index), ref |-> r]),
                                                 index + 1)

\* the loop of delete_*: for key in d: skip str(id); element = d[str(key)];
\* element["id"] = index; new[str(index)] = element; index += 1
RECURSIVE DeleteLoop(_, _, _, _, _)
DeleteLoop(c, id, pos, new, index) ==
    IF pos > Len(c.ents) THEN [exc |-> "none", old |-> c, new |-> new]
    ELSE LET key == c.ents[pos].key
         IN  IF key = PyStr(id) THEN DeleteLoop(c, id, pos + 1, new, index)
             ELSE IF ~HasKey(c.ents, StrOfKey(key))
                  THEN [exc |-> "KeyError", old |-> c, new |-> new]
                  ELSE LET r == c.ents[KeyPos(c.ents, StrOfKey(key))].ref
                       IN  IF c.heap[r].kind # "dict"
                           THEN [exc |-> "TypeError", old |-> c, new |-> new]
                           ELSE DeleteLoop([c EXCEPT !.heap[r].id = index], id, pos + 1,
                                           Append(new, [key |-> PyStr(index), ref |-> r]),
                                           index + 1)

\* delete_action that removes the record and leaves the other keys as they are
ActionList_delete_action_uncompacted(c, f, action_id) ==
    IF action_id >= Len(c.ents) \/ action_id < 0
    THEN Outcome(c, f, RetData("Action does not exist"), "none")
    ELSE save_action_list([c EXCEPT !.ents = SelectSeq(c.ents,
                                                LAMBDA e : e.key # PyStr(action_id))],
                          f, RetDeleted(action_id))

ActionList_delete_action(c, f, action_id) ==
    IF action_id >= Len(c.ents) \/ action_id < 0
    THEN Outcome(c, f, RetData("Action does not exist"), "none")
    ELSE LET d == DeleteLoop(c, action_id, 1, << >>, 0)
         IN  IF d.exc # "none" THEN Outcome(d.old, f, RetNone, d.exc)
             ELSE save_action_list([isList |-> FALSE, ents |-> d.new, heap |-> d.old.heap],
                                   f, RetDeleted(action_id))

\* ---- TaskList ----
save_task_list(c, f, ret) == Save(c, f, ret)
load_task_list(c, f) == Load(c, f)

TaskList_init(f) ==
    IF f.st # "absent" THEN load_task_list(EmptyList, f)
    ELSE save_task_list(EmptyList, f, RetNone)

TaskList_update_task(c, f, index, task) ==
    IF c.isList THEN Arg(Outcome(c, f, RetNone, "IndexError"), task)
    ELSE Arg(save_task_list(DictSet(c, IntKey(index), ModelObj(task)), f, RetModel(task)), task)

TaskList_add_task(c, f, task) ==
    IF NotNoneOrEmptyDict(c)
    THEN IF ~AllDicts(c) THEN Arg(Outcome(c, f, RetNone, "AttributeError"), task)
         ELSE IF task.name \notin NamesOf(c)
         THEN LET id == Len(c.ents)
                  t == [task EXCEPT !.id = id]
              IN  IF c.isList THEN Arg(Outcome(c, f, RetNone, "TypeError"), t)
                  ELSE Arg(save_task_list(DictSet(c, PyStr(id), ModelDict(t)), f, RetModel(t)), t)
         ELSE Arg(Outcome(c, f, RetNone, "AttributeError"), task)
    ELSE LET t == [task EXCEPT !.id = 0]
         IN  Arg(save_task_list(DictSet(EmptyDict, PyStr(0), ModelDict(t)), f,
                                RetData("Task added")), t)

\* delete_task without its save_task_list()
TaskList_delete_task_unsaved(c, f, task_id) ==
    LET d == DeleteLoop(c, task_id, 1, << >>, 0)
    IN  IF d.exc # "none" THEN Outcome(d.old, f, RetNone, d.exc)
        ELSE Outcome([isList |-> FALSE, ents |-> d.new, heap |-> d.old.heap], f, RetNone, "none")

TaskList_delete_task(c, f, task_id) ==
    LET d == DeleteLoop(c, task_id, 1, << >>, 0)
    IN  IF d.exc # "none" THEN Outcome(d.old, f, RetNone, d.exc)
        ELSE save_task_list([isList |-> FALSE, ents |-> d.new, heap |-> d.old.heap],
                            f, RetNone)

\* ---- ScheduleList ----
save_schedule_list(c, f, ret) == Save(c, f, ret)
load_schedule_list(c, f) == Load(c, f)

ScheduleList_init(f) ==
    IF f.st # "absent" THEN load_schedule_list(EmptyList, f)
    ELSE save_schedule_list(EmptyList, f, RetNone)

ScheduleList_add_schedule(c, f, schedule) ==
    IF NotNoneOrEmptyDict(c)
    THEN IF ~AllDicts(c) THEN Arg(Outcome(c, f, RetNone, "AttributeError"), schedule)
         ELSE IF schedule.name \notin NamesOf(c)
         THEN LET id == Len(c.ents)
                  s == [schedule EXCEPT !.id = id]
              IN  IF c.isList THEN Arg(Outcome(c, f, RetNone, "TypeError"), s)
                  ELSE Arg(save_schedule_list(DictSet(c, PyStr(id), ModelDict(s)), f, RetNone), s)
         ELSE Arg(save_schedule_list(c, f, RetNone), schedule)
    ELSE Arg(save_schedule_list(DictSet(EmptyDict, PyStr(schedule.id), ModelDict(schedule)),
                                f, RetNone), schedule)

ScheduleList_delete_schedule(c, f, schedule_id) ==
    LET d == DeleteLoop(c, schedule_id, 1, << >>, 0)
    IN  IF d.exc # "none" THEN Outcome(d.old, f, RetNone, d.exc)
        ELSE save_schedule_list([isList |-> FALSE, ents |-> d.new, heap |-> d.old.heap],
                                f, RetNone)

\* ---- ImageResource ----
\* An Image id is a str given by the caller, or the class-level default, which
\* is a uuid.UUID object.  An absolute path is a str that starts with "/".
StrId(s) == [k |-> "str", s |-> s]
DefaultId == [k |-> "uuid", s |-> "4f0c-uuid"]
AbsStrs == {"/tmp/img"}
ImageIds == {StrId("img1"), StrId("img2"), StrId("/tmp/img"), DefaultId}
Images == [id : ImageIds, width : {800, 1920}, base64str : {"AAAA", "BBBB"}]
NoImage == [id |-> StrId(""), width |-> 0, base64str |-> ""]

\* f"{image.id}.json"
Format(id) == id.s
FileName(id_str) == [stem |-> id_str, ext |-> "json"]

resources_dir == "resources"
image_dir == "resources/images"

\* os.path.join(dir, file_name): an absolute file_name discards dir
PathJoin(dir, file_name) ==
    IF file_name.stem \in AbsStrs THEN [dir |-> "", name |-> file_name]
    ELSE [dir |-> dir, name |-> file_name]

Tokens == {Format(id) : id \in ImageIds}
Paths == {PathJoin(d, FileName(t)) : d \in {resources_dir, image_dir}, t \in Tokens}

\* image.dict()
ImageDict(image) == [id |-> image.id, width |-> image.width, base64str |-> image.base64str]

NoFile == [st |-> "absent", val |-> NoImage]

\* json.dump(image.dict(), file, indent=6): raises TypeError at a UUID, after
\* the text before it has been written
ImageDump(d) ==
    IF d.id.k = "uuid" THEN [st |-> "truncated", val |-> NoImage]
    ELSE [st |-> "ok", val |-> [id |-> [json |-> "string", s |-> d.id.s],
                                width |-> d.width, base64str |-> d.base64str]]

\* json.loads(text) of a complete text
ImageLoads(doc) ==
    [id |-> StrId(doc.val.id.s), width |-> doc.val.width, base64str |-> doc.val.base64str]

ImgRet(tag, msg, val) == [tag |-> tag, msg |-> msg, val |-> val]
ImgOutcome(f, ret, exc) == [fs |-> f, ret |-> ret, exc |-> exc]

ImageResource_store_image(f, image) ==
    LET file_path == PathJoin(image_dir, FileName(Format(image.id)))
        doc == ImageDump(ImageDict(image))
    IN  IF doc.st = "ok"
        THEN ImgOutcome([f EXCEPT ![file_path] = doc], ImgRet("Data", "Saved image", NoImage), "none")
        ELSE ImgOutcome([f EXCEPT ![file_path] = doc], ImgRet("None", "", NoImage), "TypeError")

ImageResource_load_image(f, image_id) ==
    LET file_path == PathJoin(resources_dir, FileName(image_id))
    IN  IF f[file_path].st = "absent" THEN ImgOutcome(f, ImgRet("dict", "empty", NoImage), "none")
        ELSE IF f[file_path].st = "truncated"
             THEN ImgOutcome(f, ImgRet("None", "", NoImage), "JSONDecodeError")
             ELSE ImgOutcome(f, ImgRet("dict", "image", ImageLoads(f[file_path])), "none")

ImageResource_delete_image(f, image_id) ==
    LET file_path == PathJoin(resources_dir, FileName(image_id))
    IN  IF f[file_path].st # "absent"
        THEN ImgOutcome([f EXCEPT ![file_path] = NoFile],
                        ImgRet("Data", "Deleted image", NoImage), "none")
        ELSE ImgOutcome(f, ImgRet("Data", "File does not exist", NoImage), "none")

NoFiles == [p \in Paths |-> NoFile]
NoImgCall == [op |-> "__init__", token |-> "", image |-> NoImage, exc |-> "none",
              ret |-> ImgRet("None", "", NoImage)]

\* ---- store objects that share one backing file ----
Instances == 1..MaxInst
\* an Action as the callers of the sharing objects build it
SharedRecords == {r \in NewRecords : r.data = 1}
\* an object not constructed yet
NoObj == [built |-> FALSE, coll |-> EmptyDict]
NoObjs == [i \in Instances |-> NoObj]

\* ---- the type resolver ----
\* A schema is a field-name set.  An input is a field map, given as its key
\* set and whether its values have the types the schemas ask for.  The
\* registry is a sequence of schemas in registration order.
FieldNames == {"x1", "text", "base64str"}
\* the fields that have no default
RequiredFields == {"base64str"}
Schemas == [fields : (SUBSET FieldNames) \ {{}}]
Inputs == [keys : SUBSET FieldNames, typed : BOOLEAN]
Registries == [1..MaxSchemas -> Schemas]

\* similarity = |schema.fields \cap input.keys| / |schema.fields \cup input.keys|
Jaccard(schema, keys) ==
    [num |-> Cardinality(schema.fields \cap keys),
     den |-> Cardinality(schema.fields \cup keys)]
\* a/b > c/d, for positive b and d
Greater(x, y) == x.num * y.den > y.num * x.den

\* no candidate recorded yet: best similarity 0
NoCandidate == [idx |-> 0, num |-> 0, den |-> 1]

\* the scan that lets the schema considered later take the lead on a tie
RECURSIVE ScanLaterWins(_, _, _, _)
ScanLaterWins(registry, keys, pos, best) ==
    IF pos > Len(registry) THEN best
    ELSE LET sim == Jaccard(registry[pos], keys)
             cand == [idx |-> pos, num |-> sim.num, den |-> sim.den]
         IN  IF sim.num = sim.den THEN cand
             ELSE IF sim.num > 0 /\ ~Greater(best, sim)
                  THEN ScanLaterWins(registry, keys, pos + 1, cand)
                  ELSE ScanLaterWins(registry, keys, pos + 1, best)

\* the scan over the registered schemas: the highest-scoring schema seen so
\* far is tracked; a candidate of similarity 1.0 stops the scan and wins;
\* on a tie the schema considered first keeps the lead
RECURSIVE Scan(_, _, _, _)
Scan(registry, keys, pos, best) ==
    IF pos > Len(registry) THEN best
    ELSE LET sim == Jaccard(registry[pos], keys)
             cand == [idx |-> pos, num |-> sim.num, den |-> sim.den]
         IN  IF sim.num = sim.den THEN cand
             ELSE IF Greater(sim, best)
                  THEN Scan(registry, keys, pos + 1, cand)
                  ELSE Scan(registry, keys, pos + 1, best)

\* the input meets the field and type constraints of the schema
Validates(schema, input) ==
    /\ (schema.fields \cap RequiredFields) \subseteq input.keys
    /\ input.typed

Unresolvable == [kind |-> "Unresolvable", schema |-> 0]
Resolved(idx) == [kind |-> "Resolved", schema |-> idx]

\* resolve(input): the schema selected by the scan, with the input validated
\* against it, or Unresolvable
resolve(registry, input) ==
    LET best == Scan(registry, input.keys, 1, NoCandidate)
    IN  IF best.idx = 0 THEN Unresolvable
        ELSE IF ~Validates(registry[best.idx], input) THEN Unresolvable
        ELSE Resolved(best.idx)

NoInput == [keys |-> {}, typed |-> FALSE]
NoRes == [registry |-> << >>, input |-> NoInput, called |-> FALSE, result |-> Unresolvable]

\* ---- the state machine of one store object ----
Classes == {"ActionList", "TaskList", "ScheduleList"}

\* what a call did: the operation, its arguments, the exception raised ("none"
\* when the call returned), the value returned, the size of the collection
\* when the call was made, and the model object passed, as the call left it
Call(op, id, rec, out) ==
    [op |-> op, id |-> id, rec |-> rec, exc |-> out.exc, ret |-> out.ret,
     n |-> Len(coll.ents), arg |-> out.arg]

\* the records passed to add so far, while the calls made on the store object
\* since its construction are add calls with pairwise-distinct names
NotOnlyAdds == [onlyAdds |-> FALSE, added |-> << >>]
History(op, rec) ==
    IF /\ op = "add"
       /\ hist.onlyAdds
       /\ \A i \in 1..Len(hist.added) : hist.added[i].name # rec.name
    THEN [onlyAdds |-> TRUE, added |-> Append(hist.added, rec)]
    ELSE NotOnlyAdds

Apply(op, id, rec, out) ==
    /\ coll' = out.coll
    /\ file' = out.file
    /\ last' = Call(op, id, rec, out)
    /\ hist' = History(op, rec)
    /\ UNCHANGED <<cls, fs, imglast, objs, caller, res>>

\* construction of the store object while its backing file is absent
Construct(k) ==
    IF k = "ActionList" THEN ActionList_init(Absent)
    ELSE IF k = "TaskList" THEN TaskList_init(Absent)
    ELSE ScheduleList_init(Absent)

Init ==
    /\ cls \in Classes
    /\ coll = Construct(cls).coll
    /\ file = Construct(cls).file
    /\ last = [op |-> "__init__", id |-> None, rec |-> NoRec, exc |-> "none",
               ret |-> RetNone, n |-> 0, arg |-> NoRec]
    /\ hist = [onlyAdds |-> TRUE, added |-> << >>]
    /\ fs = NoFiles
    /\ imglast = NoImgCall
    /\ objs = NoObjs
    /\ caller = 0
    /\ res = NoRes

add_action ==
    /\ cls = "ActionList"
    /\ Len(coll.ents) < MaxLen
    /\ \E action \in NewRecords :
          Apply("add", None, action, ActionList_add_action(coll, file, action))

delete_action ==
    /\ cls = "ActionList"
    /\ \E id \in IdArgs :
          Apply("delete", id, NoRec, ActionList_delete_action(coll, file, id))

load_action ==
    /\ cls = "ActionList"
    /\ Apply("load", None, NoRec, load_action_list(coll, file))

add_task ==
    /\ cls = "TaskList"
    /\ Len(coll.ents) < MaxLen
    /\ \E task \in NewRecords :
          Apply("add", None, task, TaskList_add_task(coll, file, task))

update_task ==
    /\ cls = "TaskList"
    /\ \E index \in IdArgs, task \in UpdateRecords :
          /\ \/ HasKey(coll.ents, IntKey(index))
             \/ Len(coll.ents) < MaxLen /\ NumModels(coll) < MaxModels
          /\ Apply("update", index, task, TaskList_update_task(coll, file, index, task))

delete_task ==
    /\ cls = "TaskList"
    /\ \E id \in IdArgs :
          Apply("delete", id, NoRec, TaskList_delete_task(coll, file, id))

load_task ==
    /\ cls = "TaskList"
    /\ Apply("load", None, NoRec, load_task_list(coll, file))

add_schedule ==
    /\ cls = "ScheduleList"
    /\ Len(coll.ents) < MaxLen
    /\ \E schedule \in Records :
          Apply("add", None, schedule, ScheduleList_add_schedule(coll, file, schedule))

delete_schedule ==
    /\ cls = "ScheduleList"
    /\ \E id \in IdArgs :
          Apply("delete", id, NoRec, ScheduleList_delete_schedule(coll, file, id))

load_schedule ==
    /\ cls = "ScheduleList"
    /\ Apply("load", None, NoRec, load_schedule_list(coll, file))

Next ==
    \/ add_action
    \/ delete_action
    \/ load_action
    \/ add_task
    \/ update_task
    \/ delete_task
    \/ load_task
    \/ add_schedule
    \/ delete_schedule
    \/ load_schedule

Spec == Init /\ [][Next]_vars

\* ---- the state machine of one ImageResource ----
ImgApply(op, token, image, out) ==
    /\ fs' = out.fs
    /\ imglast' = [op |-> op, token |-> token, image |-> image, exc |-> out.exc, ret |-> out.ret]
    /\ UNCHANGED <<cls, coll, file, last, hist, objs, caller, res>>

InitImage ==
    /\ cls = "ImageResource"
    /\ coll = EmptyDict
    /\ file = Absent
    /\ last = [op |-> "__init__", id |-> None, rec |-> NoRec, exc |-> "none",
               ret |-> RetNone, n |-> 0, arg |-> NoRec]
    /\ hist = NotOnlyAdds
    /\ fs = NoFiles
    /\ imglast = NoImgCall
    /\ objs = NoObjs
    /\ caller = 0
    /\ res = NoRes

store_image ==
    /\ cls = "ImageResource"
    /\ \E image \in Images :
          ImgApply("store_image", Format(image.id), image, ImageResource_store_image(fs, image))

load_image ==
    /\ cls = "ImageResource"
    /\ \E image_id \in Tokens :
          ImgApply("load_image", image_id, NoImage, ImageResource_load_image(fs, image_id))

delete_image ==
    /\ cls = "ImageResource"
    /\ \E image_id \in Tokens :
          ImgApply("delete_image", image_id, NoImage, ImageResource_delete_image(fs, image_id))

NextImage ==
    \/ store_image
    \/ load_image
    \/ delete_image

SpecImage == InitImage /\ [][NextImage]_vars

\* ---- the state machine of several ActionList objects on one backing file ----
\* Each object has its own in-memory collection; the calls of the objects are
\* interleaved as whole calls.  caller is the object that made the last call.
SharedApply(i, op, id, rec, out) ==
    /\ objs' = [objs EXCEPT ![i] = [built |-> TRUE, coll |-> out.coll]]
    /\ file' = out.file
    /\ last' = [op |-> op, id |-> id, rec |-> rec, exc |-> out.exc, ret |-> out.ret,
                n |-> Len(objs[i].coll.ents), arg |-> out.arg]
    /\ caller' = i
    /\ UNCHANGED <<cls, coll, hist, fs, imglast, res>>

InitShared ==
    /\ cls = "ActionList"
    /\ coll = EmptyDict
    /\ file = Absent
    /\ last = [op |-> "__init__", id |-> None, rec |-> NoRec, exc |-> "none",
               ret |-> RetNone, n |-> 0, arg |-> NoRec]
    /\ hist = NotOnlyAdds
    /\ fs = NoFiles
    /\ imglast = NoImgCall
    /\ objs = NoObjs
    /\ caller = 0
    /\ res = NoRes

\* ActionList(): a new object takes the place of object i
shared_init ==
    /\ cls = "ActionList"
    /\ \E i \in Instances :
          SharedApply(i, "__init__", None, NoRec, ActionList_init(file))

shared_add_action ==
    /\ cls = "ActionList"
    /\ \E i \in Instances, action \in SharedRecords :
          /\ objs[i].built
          /\ Len(objs[i].coll.ents) < MaxLen
          /\ SharedApply(i, "add", None, action,
                         ActionList_add_action(objs[i].coll, file, action))

shared_delete_action ==
    /\ cls = "ActionList"
    /\ \E i \in Instances : \E id \in (-1)..Len(objs[i].coll.ents) :
          /\ objs[i].built
          /\ SharedApply(i, "delete", id, NoRec,
                         ActionList_delete_action(objs[i].coll, file, id))

NextShared ==
    \/ shared_init
    \/ shared_add_action
    \/ shared_delete_action

SpecShared == InitShared /\ [][NextShared]_vars

\* ---- the state machine of the type resolver ----
InitResolver ==
    /\ cls = "Resolver"
    /\ coll = EmptyDict
    /\ file = Absent
    /\ last = [op |-> "__init__", id |-> None, rec |-> NoRec, exc |-> "none",
               ret |-> RetNone, n |-> 0, arg |-> NoRec]
    /\ hist = NotOnlyAdds
    /\ fs = NoFiles
    /\ imglast = NoImgCall
    /\ objs = NoObjs
    /\ caller = 0
    /\ \E registry \in Registries : res = [NoRes EXCEPT !.registry = registry]

resolve_input ==
    /\ cls = "Resolver"
    /\ \E input \in Inputs :
          res' = [registry |-> res.registry, input |-> input, called |-> TRUE,
                  result |-> resolve(res.registry, input)]
    /\ UNCHANGED <<cls, coll, file, last, hist, fs, imglast, objs, caller>>

NextResolver ==
    \/ resolve_input

SpecResolver == InitResolver /\ [][NextResolver]_vars

\* ---- properties ----
Size(c) == Len(c.ents)
\* the ids under which the collection holds its records
IdsOf(c) == {c.ents[i].key.v : i \in 1..Len(c.ents)}
\* the keys are exactly the strings "0" .. "n-1"
DenseStr(c) == {c.ents[i].key : i \in 1..Len(c.ents)} = {PyStr(i) : i \in 0..(Len(c.ents) - 1)}
\* a record without its id field
Body(o) == [name |-> o.name, data |-> o.data]
\* the record stored under the string key of id
AtId(c, id) == c.heap[c.ents[KeyPos(c.ents, PyStr(id))].ref]
InRange(id, c) == 0 <= id /\ id < Len(c.ents)
Mutating == {"add", "update", "delete"}

\* C1: in every state of every collection store, the set of ids of the
\* collection is exactly {0, ..., n-1}, n being the number of records held.
C1_IdsAreDense == IdsOf(coll) = 0..(Size(coll) - 1)

\* C2: while the calls made on a store constructed with its backing file absent
\* are N add calls with pairwise-distinct names, the last call has returned and
\* the i-th added record is stored under id i-1, in insertion order.
C2_DistinctAddsGetIdsInOrder ==
    hist.onlyAdds =>
        /\ last.exc = "none"
        /\ Size(coll) = Len(hist.added)
        /\ \A i \in 1..Len(hist.added) :
              /\ i <= Size(coll)
              /\ coll.ents[i].key = PyStr(i - 1)
              /\ Plain(ValAt(coll, i)) = [hist.added[i] EXCEPT !.id = i - 1]

\* C3: a delete call with id k, 0 <= k < n, on a collection whose keys are
\* "0".."n-1" returns and leaves n-1 records under the keys "0".."n-2" in that
\* order: the record formerly at id < k is at the same id, the record formerly
\* at id > k is at id-1 and its id field holds that value, and the survivors
\* keep their relative order.
DeleteCompacted(old, k, new) ==
    /\ Size(new) = Size(old) - 1
    /\ \A j \in 1..Size(new) : new.ents[j].key = PyStr(j - 1)
    /\ \A i \in 0..(Size(old) - 1) :
          /\ i < k => (i < Size(new) /\ Body(AtId(new, i)) = Body(AtId(old, i)))
          /\ i > k => (/\ i - 1 < Size(new)
                       /\ Body(AtId(new, i - 1)) = Body(AtId(old, i))
                       /\ AtId(new, i - 1).id = i - 1)
    /\ \A j \in 1..Size(new) :
          Body(ValAt(new, j)) =
              Body(ValAt(old, IF j < KeyPos(old.ents, PyStr(k)) THEN j ELSE j + 1))

C3_DeleteCompacts ==
    [][(last'.op = "delete" /\ DenseStr(coll) /\ InRange(last'.id, coll))
       => (last'.exc = "none" /\ DeleteCompacted(coll, last'.id, coll'))]_vars

\* C4: an add call whose record has the name of a record already held returns,
\* leaves the size unchanged and leaves, in place of the record of that name,
\* the supplied record with the id of the existing one.
UpdatedInPlace(old, rec, new) ==
    /\ Size(new) = Size(old)
    /\ \A i \in 1..Size(old) :
          ValAt(old, i).name = rec.name =>
              /\ i <= Size(new)
              /\ new.ents[i].key = old.ents[i].key
              /\ Plain(ValAt(new, i)) = [rec EXCEPT !.id = old.ents[i].key.v]

C4_AddExistingNameUpdatesInPlace ==
    [][(last'.op = "add" /\ last'.rec.name \in NamesOf(coll))
       => (last'.exc = "none" /\ UpdatedInPlace(coll, last'.rec, coll'))]_vars

\* C5: no two records held in the collection have the same name.
C5_NamesAreUnique ==
    \A i, j \in 1..Size(coll) : i # j => ValAt(coll, i).name # ValAt(coll, j).name

\* C6: update_task with an id outside [0, n-1] returns InvalidId and leaves the
\* in-memory collection and the backing file unchanged.
C6_UpdateOutOfRangeIsInvalidId ==
    [][(last'.op = "update" /\ ~InRange(last'.id, coll))
       => (/\ last'.exc = "none"
           /\ last'.ret.tag = "InvalidId"
           /\ coll' = coll
           /\ file' = file)]_vars

\* C7: update_task with an id in [0, n-1] returns, leaves the size unchanged,
\* holds the supplied record at that id and every other record as before, and
\* the backing file holds the resulting collection.
Replaced(old, id, rec, new) ==
    /\ Size(new) = Size(old)
    /\ \A i \in 1..Size(old) :
          /\ i <= Size(new)
          /\ new.ents[i].key = old.ents[i].key
          /\ Plain(ValAt(new, i)) =
                IF old.ents[i].key.v = id THEN rec ELSE Plain(ValAt(old, i))

\* the document holds the members of the collection, in the same order
SameDocument(doc, c) ==
    /\ doc.st = "ok"
    /\ doc.isList = c.isList
    /\ Len(doc.ents) = Size(c)
    /\ \A i \in 1..Size(c) :
          /\ i <= Len(doc.ents)
          /\ c.ents[i].key = doc.ents[i].key
          /\ ValAt(c, i).kind = "dict"
          /\ Plain(ValAt(c, i)) = doc.ents[i].val

C7_UpdateReplacesWholesale ==
    [][(last'.op = "update" /\ InRange(last'.id, coll))
       => (/\ last'.exc = "none"
           /\ Replaced(coll, last'.id, last'.rec, coll')
           /\ SameDocument(file', coll'))]_vars

\* C8: a delete call with an id outside [0, n-1] returns a NotFound value and
\* leaves the collection unchanged.
NotFoundMsgs == {"Action does not exist", "Task does not exist", "Schedule does not exist"}
C8_DeleteOutOfRangeIsNotFound ==
    [][(last'.op = "delete" /\ ~InRange(last'.id, coll))
       => (/\ last'.exc = "none"
           /\ last'.ret.tag = "Data" /\ last'.ret.msg \in NotFoundMsgs
           /\ coll' = coll)]_vars

C10_StoreThenLoadRoundTrip ==
    [][(/\ imglast.op = "store_image" /\ imglast.exc = "none"
        /\ imglast'.op = "load_image" /\ imglast'.token = imglast.token)
       => (/\ imglast'.exc = "none"
           /\ imglast'.ret.msg = "image"
           /\ imglast'.ret.val = ImageDict(imglast.image))]_vars

\* the file that store_image writes for the record with the token
StoredPath(token) == PathJoin(image_dir, FileName(token))

\* C11: a delete_image call with a token for which an earlier store_image left
\* a file returns, reports the deletion and leaves that file absent; a
\* delete_image call that reports NotFound was made while no file was stored
\* for the token, and changes no file.
C11_DeleteRemovesStoredFile ==
    [][(imglast'.op = "delete_image")
       => (/\ imglast'.exc = "none"
           /\ fs[StoredPath(imglast'.token)].st # "absent"
                 => (/\ imglast'.ret.msg = "Deleted image"
                     /\ fs'[StoredPath(imglast'.token)].st = "absent")
           /\ imglast'.ret.msg = "File does not exist"
                 => (/\ fs[StoredPath(imglast'.token)].st = "absent"
                     /\ fs' = fs))]_vars

\* the record was created without an explicit id: its id is the class default
CreatedWithoutId(image) == image.id = DefaultId

\* C12: when two distinct Image records created without an explicit id are
\* stored one after the other, their tokens differ and the second store
\* leaves the file of the first as it was.
C12_DefaultTokensAreUnique ==
    [][(/\ imglast.op = "store_image" /\ imglast'.op = "store_image"
        /\ CreatedWithoutId(imglast.image) /\ CreatedWithoutId(imglast'.image)
        /\ imglast.image # imglast'.image)
       => (/\ imglast'.token # imglast.token
           /\ fs'[StoredPath(imglast.token)] = fs[StoredPath(imglast.token)])]_vars

\* the names of the records that the document holds
FileNames(doc) == {doc.ents[i].val.name : i \in 1..Len(doc.ents)}
\* the call found no record under its id: it changes nothing and saves nothing
IsNotFound(l) == l.ret.tag = "Data" /\ l.ret.msg \in NotFoundMsgs

\* C13: among ActionList objects on one backing file, a mutating call (an add,
\* or a delete that finds its record) returns and leaves in the file exactly
\* the in-memory collection of the object that made it; and when the call
\* before it was an add by another object, whose record the caller neither
\* held in memory nor adds itself, that record is absent from the file.
C13_LastSaveWins ==
    [][(last'.op \in Mutating /\ ~IsNotFound(last'))
       => (/\ last'.exc = "none"
           /\ SameDocument(file', objs'[caller'].coll)
           /\ (/\ last.op = "add" /\ last.ret.tag = "obj"
               /\ caller # caller'
               /\ last.rec.name \notin NamesOf(objs[caller'].coll)
               /\ last'.rec.name # last.rec.name)
                 => (/\ last.rec.name \in FileNames(file)
                     /\ last.rec.name \notin FileNames(file')))]_vars

\* an add has returned and the file holds the caller's one record, while
\* another object holds a record of another name that the file does not hold
C13_Witness ==
    /\ last.op = "add" /\ last.exc = "none" /\ last.n = 0
    /\ caller # 0
    /\ SameDocument(file, objs[caller].coll)
    /\ \E j \in Instances \ {caller} :
          /\ objs[j].built
          /\ Size(objs[j].coll) = 1
          /\ NamesOf(objs[j].coll) \cap FileNames(file) = {}

\* the similarity of the input of the last resolve call with the i-th schema
SimOf(i) == Jaccard(res.registry[i], res.input.keys)
\* no registered schema scores higher than the i-th, and every schema
\* registered before it scores lower
FirstOfHighest(i) ==
    /\ \A j \in 1..Len(res.registry) : ~Greater(SimOf(j), SimOf(i))
    /\ \A j \in 1..(i - 1) : Greater(SimOf(i), SimOf(j))

\* C14: the schema that a resolve call returns has the highest Jaccard
\* similarity with the key set of the input among the registered schemas and
\* is, of the schemas of that similarity, the one registered first; the call
\* returns Unresolvable only when no schema shares a field with the input or
\* the input fails the constraints of that schema.
C14_ResolverReturnsFirstOfHighest ==
    res.called =>
        /\ res.result.kind = "Resolved" =>
              /\ res.result.schema \in 1..Len(res.registry)
              /\ FirstOfHighest(res.result.schema)
        /\ res.result.kind = "Unresolvable" =>
              \/ \A j \in 1..Len(res.registry) : SimOf(j).num = 0
              \/ \E i \in 1..Len(res.registry) :
                    FirstOfHighest(i) /\ ~Validates(res.registry[i], res.input)

\* a resolve call returned the first of two schemas that share the highest
\* similarity with the input, a similarity below 1.0
C14_Witness ==
    /\ res.called
    /\ res.result.kind = "Resolved"
    /\ \E j \in 1..Len(res.registry) :
          /\ j > res.result.schema
          /\ res.registry[j].fields # res.registry[res.result.schema].fields
          /\ ~Greater(SimOf(res.result.schema), SimOf(j))
          /\ SimOf(j).num < SimOf(j).den

\* the record is stored under id n, and the n records held before are held
\* as before, under the same keys and in the same order
AppendedAt(old, n, rec, new) ==
    /\ Size(new) = Size(old) + 1
    /\ HasKey(new.ents, PyStr(n))
    /\ HasKey(new.ents, PyStr(n)) => Plain(AtId(new, n)) = [rec EXCEPT !.id = n]
    /\ \A i \in 1..Size(old) :
          /\ i <= Size(new)
          /\ new.ents[i].key = old.ents[i].key
          /\ ValAt(new, i) = ValAt(old, i)

\* C15: an add call whose record has a name that no record held has returns,
\* stores the record under the id equal to the size n of the collection before
\* the call, makes the size n+1, and leaves every record held before under
\* its id, unchanged.
C15_AddNewNameAppends ==
    [][(last'.op = "add" /\ last'.rec.name \notin NamesOf(coll))
       => (/\ last'.exc = "none"
           /\ AppendedAt(coll, Size(coll), last'.rec, coll'))]_vars

\* C16: an add_schedule call on the empty dict, as a delete_schedule leaves
\* it, returns and leaves one record, stored under the key "0", with its id
\* field 0 and the other fields as supplied, whatever id the supplied record
\* has.
C16_AddScheduleOnEmptyAssignsZero ==
    [][(/\ cls = "ScheduleList" /\ last'.op = "add"
        /\ ~coll.isList /\ Size(coll) = 0)
       => (/\ last'.exc = "none"
           /\ Size(coll') = 1
           /\ coll'.ents[1].key = PyStr(0)
           /\ Plain(ValAt(coll', 1)) = [last'.rec EXCEPT !.id = 0])]_vars

\* the id field of every record is the integer of the key it is stored under
IdsMatchKeys(c) == \A i \in 1..Size(c) : ValAt(c, i).id = c.ents[i].key.v

\* C17: when a delete call has returned, the keys of the collection are
\* exactly "0".."m-1", m being its size, and the id field of every record is
\* the integer of its key.
C17_DeleteReestablishesDenseIds ==
    (last.op = "delete" /\ last.exc = "none")
        => (DenseStr(coll) /\ IdsMatchKeys(coll))

\* C18: in every state of an ActionList constructed with its backing file
\* absent, the keys of the collection are the decimal strings of 0..n-1 and
\* the id field of every record is the integer of the key it is stored under.
C18_ActionIdsMatchKeys ==
    cls = "ActionList" => (~coll.isList /\ DenseStr(coll) /\ IdsMatchKeys(coll))

\* a delete_action has removed the record of id 0 and two records, moved
\* down, remain
C18_Witness ==
    /\ cls = "ActionList"
    /\ last.op = "delete" /\ last.id = 0 /\ last.ret.msg = "Deleted action id"
    /\ last.n = 3 /\ Size(coll) = 2

\* C19: an add_action call whose record has the name of a record held returns
\* the status 'Action already exists', leaves the in-memory collection as it
\* was, and leaves the record passed as it was, without an id assigned.
C19_AddExistingActionChangesNothing ==
    [][(/\ cls = "ActionList" /\ last'.op = "add"
        /\ last'.rec.name \in NamesOf(coll))
       => (/\ last'.exc = "none"
           /\ last'.ret = RetData("Action already exists")
           /\ coll' = coll
           /\ last'.arg = last'.rec)]_vars

\* an add_action with the name of the record held under id 0, and with other
\* data, has returned and the two records held are as before
C19_Witness ==
    /\ cls = "ActionList"
    /\ last.op = "add" /\ last.ret.msg = "Action already exists"
    /\ Size(coll) = 2
    /\ ValAt(coll, 1).name = last.rec.name
    /\ ValAt(coll, 1).data # last.rec.data
    /\ last.arg.id = None

\* the document is a JSON object whose keys are exactly "0".."n-1"
FileDense(doc) ==
    /\ doc.st = "ok" /\ ~doc.isList
    /\ {doc.ents[i].key : i \in 1..Len(doc.ents)} = {PyStr(i) : i \in 0..(Len(doc.ents) - 1)}
FileNamesDistinct(doc) ==
    \A i, j \in 1..Len(doc.ents) : i # j => doc.ents[i].val.name # doc.ents[j].val.name

\* C20: with several ActionList objects constructed on one backing file,
\* absent at first, and their add_action and delete_action calls interleaved
\* as whole calls, the file after every call holds a collection whose keys
\* are exactly "0".."n-1" and whose names are pairwise distinct.
C20_SharedFileStaysDense ==
    caller # 0 => (FileDense(file) /\ FileNamesDistinct(file))

\* a call has left two records in the file while another object holds a
\* record whose name the file does not hold: an update of that object was lost
C20_Witness ==
    /\ caller # 0
    /\ last.op \in {"add", "delete"}
    /\ Len(file.ents) = 2
    /\ \E j \in Instances \ {caller} :
          /\ objs[j].built
          /\ NamesOf(objs[j].coll) \ FileNames(file) # {}

====
